---------------------------- MODULE Spec2Model ----------------------------
(***************************************************************************)
(* A model of the cxxstreams pull pipelines: the counting source           *)
(* (cxxs::CountingStreamable), the iterator-bound source                   *)
(* (kstd::streams::RefSupplier), the chaining stage and the terminal       *)
(* operations of kstd::streams::Stream.                                    *)
(*                                                                         *)
(* An optional is a sequence of length at most one: Absent is std::nullopt *)
(* and Present(v) holds v.  A pipeline is a tree of records, the leaves    *)
(* being sources; every operation of Stream is one action that runs the    *)
(* whole member function, its loop included.                               *)
(***************************************************************************)
EXTENDS Integers, Sequences, FiniteSets, TLC

\* Longest container an iterator-bound source ranges over.
MaxLen == 3
\* Largest max_count of a counting source.
MaxCount == 2
\* Largest count given to skip and largest capacity given to the collectors.
MaxArg == 3
\* Largest number of chaining stages in one pipeline.
MaxChain == 1

\* The element values the sources hold.
Values == {1, 2, 3}

Absent == << >>
Present(v) == << v >>

Min2(a, b) == IF a <= b THEN a ELSE b

(***************************************************************************)
(* Sources                                                                 *)
(***************************************************************************)

\* CountingStreamable(T value, size_t max_count): _count starts at 0.
CountingStreamable(value, max_count) ==
    [kind |-> "counting", _value |-> value, _max_count |-> max_count, _count |-> 0]

\* RefSupplier(iterator begin, iterator end) over the container data; an
\* iterator is a position 1..Len(data)+1, Len(data)+1 being past-the-end.
RefSupplier(data, begin, end) ==
    [kind |-> "ref", data |-> data, _current |-> begin, _end |-> end]

\* CountingStreamable::next starting over when it reports absent.
CountingNextReset(s) ==
    IF s._count = s._max_count
    THEN [element |-> Absent, s |-> [s EXCEPT !._count = 0]]
    ELSE [element |-> Present(s._value), s |-> [s EXCEPT !._count = @ + 1]]

\* CountingStreamable::next stopping one element early.
CountingNextOneShort(s) ==
    IF s._count + 1 >= s._max_count
    THEN [element |-> Absent, s |-> s]
    ELSE [element |-> Present(s._value), s |-> [s EXCEPT !._count = @ + 1]]

\* CountingStreamable::next
CountingNext(s) ==
    IF s._count = s._max_count
    THEN [element |-> Absent, s |-> s]
    ELSE [element |-> Present(s._value), s |-> [s EXCEPT !._count = @ + 1]]

\* RefSupplier::get_next rewinding the cursor when it reports absent.
RefGetNextRewind(s) ==
    IF s._current = s._end
    THEN [element |-> Absent, s |-> [s EXCEPT !._current = 1]]
    ELSE [element |-> Present(s.data[s._current]),
          s |-> [s EXCEPT !._current = @ + 1]]

\* RefSupplier::get_next advancing the cursor by two, up to the end.
RefGetNextSkipping(s) ==
    IF s._current = s._end
    THEN [element |-> Absent, s |-> s]
    ELSE [element |-> Present(s.data[s._current]),
          s |-> [s EXCEPT !._current = Min2(@ + 2, s._end)]]

\* RefSupplier::get_next
RefGetNext(s) ==
    IF s._current = s._end
    THEN [element |-> Absent, s |-> s]
    ELSE [element |-> Present(s.data[s._current]),
          s |-> [s EXCEPT !._current = @ + 1]]

(***************************************************************************)
(* The caller's functions: a binary function for reduce, given by name,    *)
(* and a predicate for the matchers, given as the set of values it holds   *)
(* of.                                                                     *)
(***************************************************************************)

Functions == {"add", "sub", "smaller", "larger"}

Apply(f, a, b) ==
    CASE f = "add" -> a + b
      [] f = "sub" -> a - b
      [] f = "smaller" -> IF b < a THEN b ELSE a
      [] f = "larger" -> IF a < b THEN b ELSE a

Predicates == SUBSET Values

Holds(predicate, v) == v \in predicate

\* The mappers given to map and zip, by name.
Mappers == {"inc", "neg"}

MapApply(mapper, v) == IF mapper = "inc" THEN v + 1 ELSE 0 - v

\* The key mappers given to collect_map, by name: half the element rounded
\* down, which maps 2 and 3 to one key, and the element itself.
KeyMappers == {"half", "self"}

KeyApply(key_mapper, v) == IF key_mapper = "half" THEN v \div 2 ELSE v

\* The comparators given to sorted, by name.
Comparators == {"less", "greater"}

Compare(comparator, a, b) == IF comparator = "less" THEN a < b ELSE a > b

(***************************************************************************)
(* Stages                                                                  *)
(***************************************************************************)

\* ChainingStream(first, second): owns both streamables.
ChainingStream(first, second) ==
    [kind |-> "chain", first |-> first, second |-> second]

\* Number of chaining stages of a pipeline.
RECURSIVE ChainDepth(_)
ChainDepth(s) ==
    IF s.kind = "chain" THEN 1 + ChainDepth(s.first) + ChainDepth(s.second) ELSE 0

\* next() of the streamable s, whatever its type: the element it returns
\* and the streamable afterwards.
RECURSIVE StreamableNext(_)

\* ChainingStream::next: the first streamable until it reports absent, then
\* the second.
ChainingStreamNext(s) ==
    LET a == StreamableNext(s.first) IN
    IF a.element # Absent
    THEN [element |-> a.element, s |-> [s EXCEPT !.first = a.s]]
    ELSE LET b == StreamableNext(s.second) IN
         [element |-> b.element, s |-> [s EXCEPT !.first = a.s, !.second = b.s]]

\* OwningIteratorStreamable(container): owns the container and iterates it
\* from its first position.
OwningIteratorStreamable(container) ==
    [kind |-> "owning", data |-> container, _current |-> 1]

\* OwningIteratorStreamable::next
OwningNext(s) ==
    IF s._current = Len(s.data) + 1
    THEN [element |-> Absent, s |-> s]
    ELSE [element |-> Present(s.data[s._current]),
          s |-> [s EXCEPT !._current = @ + 1]]

\* The mappers given to flat_map and flat_zip: a counting streamable of the
\* element, of two elements ("twice") or of one ("once").
FlatMappers == {"twice", "once"}

FlatApply(mapper, v) == CountingStreamable(v, IF mapper = "twice" THEN 2 ELSE 1)

FilteringStream(up, filter) == [kind |-> "filter", up |-> up, filter |-> filter]

\* FilteringStream::next: pulls upstream until the predicate holds or
\* upstream reports absent.
RECURSIVE FilteringNext(_)
FilteringNext(s) ==
    LET u == StreamableNext(s.up) IN
    IF u.element = Absent \/ Holds(s.filter, u.element[1])
    THEN [element |-> u.element, s |-> [s EXCEPT !.up = u.s]]
    ELSE FilteringNext([s EXCEPT !.up = u.s])

MappingStream(up, mapper) == [kind |-> "map", up |-> up, mapper |-> mapper]

\* MappingStream::next: one upstream element, transformed.
MappingNext(s) ==
    LET u == StreamableNext(s.up) IN
    [element |-> IF u.element = Absent THEN Absent
                 ELSE Present(MapApply(s.mapper, u.element[1])),
     s |-> [s EXCEPT !.up = u.s]]

\* FlatMappingStream: inner is the streamable made from the current
\* upstream element, if any.
FlatMappingStream(up, mapper) ==
    [kind |-> "flat_map", up |-> up, mapper |-> mapper, inner |-> Absent]

\* FlatMappingStream::next: the inner streamable until it reports absent,
\* then the one made from the next upstream element.
RECURSIVE FlatMappingNext(_)
FlatMappingNext(s) ==
    LET i == IF s.inner = Absent THEN [element |-> Absent, s |-> Absent]
             ELSE LET r == StreamableNext(s.inner[1]) IN
                  [element |-> r.element, s |-> Present(r.s)]
    IN  IF i.element # Absent
        THEN [element |-> i.element, s |-> [s EXCEPT !.inner = i.s]]
        ELSE LET u == StreamableNext(s.up) IN
             IF u.element = Absent
             THEN [element |-> Absent, s |-> [s EXCEPT !.up = u.s, !.inner = Absent]]
             ELSE FlatMappingNext([s EXCEPT !.up = u.s,
                                   !.inner = Present(FlatApply(s.mapper, u.element[1]))])

ZippingStream(up, left_mapper, right_mapper) ==
    [kind |-> "zip", up |-> up, left_mapper |-> left_mapper,
     right_mapper |-> right_mapper]

\* ZippingStream::next: the pair of both transforms of one upstream element.
ZippingNext(s) ==
    LET u == StreamableNext(s.up) IN
    [element |-> IF u.element = Absent THEN Absent
                 ELSE Present(<< MapApply(s.left_mapper, u.element[1]),
                                 MapApply(s.right_mapper, u.element[1]) >>),
     s |-> [s EXCEPT !.up = u.s]]

\* FlatZippingStream: left and right are the streamables made from the
\* current upstream element, if any.
FlatZippingStream(up, left_mapper, right_mapper) ==
    [kind |-> "flat_zip", up |-> up, left_mapper |-> left_mapper,
     right_mapper |-> right_mapper, left |-> Absent, right |-> Absent]

\* FlatZippingStream::next: the pairs of the two inner streamables in
\* lockstep until either reports absent, then those of the next upstream
\* element.
RECURSIVE FlatZippingNext(_)
FlatZippingNext(s) ==
    LET l == IF s.left = Absent THEN [element |-> Absent, s |-> Absent]
             ELSE LET r == StreamableNext(s.left[1]) IN
                  [element |-> r.element, s |-> Present(r.s)]
        r == IF s.right = Absent \/ l.element = Absent
             THEN [element |-> Absent, s |-> s.right]
             ELSE LET q == StreamableNext(s.right[1]) IN
                  [element |-> q.element, s |-> Present(q.s)]
    IN  IF l.element # Absent /\ r.element # Absent
        THEN [element |-> Present(<< l.element[1], r.element[1] >>),
              s |-> [s EXCEPT !.left = l.s, !.right = r.s]]
        ELSE LET u == StreamableNext(s.up) IN
             IF u.element = Absent
             THEN [element |-> Absent,
                   s |-> [s EXCEPT !.up = u.s, !.left = Absent, !.right = Absent]]
             ELSE FlatZippingNext(
                     [s EXCEPT !.up = u.s,
                               !.left = Present(FlatApply(s.left_mapper, u.element[1])),
                               !.right = Present(FlatApply(s.right_mapper, u.element[1]))])

\* PeekingStream: peeked are the elements its function was called on.
PeekingStream(up) == [kind |-> "peek", up |-> up, peeked |-> << >>]

\* PeekingStream::next: the function is called on the element passing.
PeekingNext(s) ==
    LET u == StreamableNext(s.up) IN
    [element |-> u.element,
     s |-> [s EXCEPT !.up = u.s,
                     !.peeked = IF u.element = Absent THEN @ ELSE Append(@, u.element[1])]]

\* DroppingStream: dropped is the gate, set once the prefix is dropped.
DroppingStream(up, predicate) ==
    [kind |-> "drop_while", up |-> up, predicate |-> predicate, dropped |-> FALSE]

\* DroppingStream::next: suppresses the prefix on which the predicate
\* holds, then passes everything.
RECURSIVE DroppingNext(_)
DroppingNext(s) ==
    LET u == StreamableNext(s.up) IN
    IF s.dropped \/ u.element = Absent
    THEN [element |-> u.element, s |-> [s EXCEPT !.up = u.s]]
    ELSE IF Holds(s.predicate, u.element[1])
         THEN DroppingNext([s EXCEPT !.up = u.s])
         ELSE [element |-> u.element, s |-> [s EXCEPT !.up = u.s, !.dropped = TRUE]]

\* TakingStream: done is the gate, set at the first element on which the
\* predicate fails.
TakingStream(up, predicate) ==
    [kind |-> "take_while", up |-> up, predicate |-> predicate, done |-> FALSE]

\* TakingStream::next: yields while the predicate holds and is exhausted
\* for good at the first failure.
TakingNext(s) ==
    IF s.done
    THEN [element |-> Absent, s |-> s]
    ELSE LET u == StreamableNext(s.up) IN
         IF u.element = Absent
         THEN [element |-> Absent, s |-> [s EXCEPT !.up = u.s]]
         ELSE IF Holds(s.predicate, u.element[1])
              THEN [element |-> u.element, s |-> [s EXCEPT !.up = u.s]]
              ELSE [element |-> Absent, s |-> [s EXCEPT !.up = u.s, !.done = TRUE]]

\* LimitingStream: count is the number of elements yielded so far.
LimitingStream(up, max_count) ==
    [kind |-> "limit", up |-> up, max_count |-> max_count, count |-> 0]

\* LimitingStream::next: stops yielding once max_count elements were
\* yielded, whatever upstream still has.
LimitingNext(s) ==
    IF s.count = s.max_count
    THEN [element |-> Absent, s |-> s]
    ELSE LET u == StreamableNext(s.up) IN
         [element |-> u.element,
          s |-> [s EXCEPT !.up = u.s,
                          !.count = IF u.element = Absent THEN @ ELSE @ + 1]]

\* DistinctStream: seen are the elements yielded so far.
DistinctStream(up) == [kind |-> "distinct", up |-> up, seen |-> {}]

\* DistinctStream::next: suppresses the elements equal to one yielded
\* before.
RECURSIVE DistinctNext(_)
DistinctNext(s) ==
    LET u == StreamableNext(s.up) IN
    IF u.element = Absent
    THEN [element |-> Absent, s |-> [s EXCEPT !.up = u.s]]
    ELSE IF u.element[1] \in s.seen
         THEN DistinctNext([s EXCEPT !.up = u.s])
         ELSE [element |-> u.element,
               s |-> [s EXCEPT !.up = u.s, !.seen = @ \cup { u.element[1] }]]

\* SortingStream: buffer holds the sorted elements still to be yielded once
\* is_sorted is set; pulls counts the next() calls made on upstream.
SortingStream(up, comparator) ==
    [kind |-> "sorted", up |-> up, comparator |-> comparator, is_sorted |-> FALSE,
     buffer |-> << >>, pulls |-> 0]

\* The sorted sequence es with v inserted behind the elements that do not
\* come after it under the comparator.
RECURSIVE InsertSorted(_, _, _)
InsertSorted(comparator, v, es) ==
    IF es = << >> THEN << v >>
    ELSE IF Compare(comparator, v, es[1])
         THEN << v >> \o es
         ELSE << es[1] >> \o InsertSorted(comparator, v, Tail(es))

\* SortingStream: upstream drained into the buffer, the buffer kept sorted.
RECURSIVE SortingDrain(_)
SortingDrain(s) ==
    LET u == StreamableNext(s.up)
        d == [s EXCEPT !.up = u.s, !.pulls = @ + 1]
    IN  IF u.element = Absent
        THEN [d EXCEPT !.is_sorted = TRUE]
        ELSE SortingDrain([d EXCEPT !.buffer =
                               InsertSorted(s.comparator, u.element[1], @)])

\* SortingStream::next: on the first call drains upstream into the buffer
\* and sorts it; every call yields the next element of the buffer.
SortingNext(s) ==
    LET d == IF s.is_sorted THEN s ELSE SortingDrain(s) IN
    IF d.buffer = << >>
    THEN [element |-> Absent, s |-> d]
    ELSE [element |-> Present(d.buffer[1]), s |-> [d EXCEPT !.buffer = Tail(@)]]

StreamableNext(s) ==
    CASE s.kind = "counting" -> CountingNext(s)
      [] s.kind = "ref" -> RefGetNext(s)
      [] s.kind = "owning" -> OwningNext(s)
      [] s.kind = "chain" -> ChainingStreamNext(s)
      [] s.kind = "filter" -> FilteringNext(s)
      [] s.kind = "map" -> MappingNext(s)
      [] s.kind = "flat_map" -> FlatMappingNext(s)
      [] s.kind = "zip" -> ZippingNext(s)
      [] s.kind = "flat_zip" -> FlatZippingNext(s)
      [] s.kind = "peek" -> PeekingNext(s)
      [] s.kind = "drop_while" -> DroppingNext(s)
      [] s.kind = "take_while" -> TakingNext(s)
      [] s.kind = "limit" -> LimitingNext(s)
      [] s.kind = "distinct" -> DistinctNext(s)
      [] s.kind = "sorted" -> SortingNext(s)

(***************************************************************************)
(* The pipeline under an operation: self.s is the pipeline (get_self()),   *)
(* self.pulled the results of the next() calls the operation has made on   *)
(* it so far, in call order.                                               *)
(***************************************************************************)

Self(s) == [s |-> s, pulled |-> << >>]

\* self.next()
next(self) ==
    LET r == StreamableNext(self.s) IN
    [element |-> r.element,
     self |-> [s |-> r.s, pulled |-> Append(self.pulled, r.element)]]

\* What an operation leaves behind: the pipeline, the value returned, the
\* next() results, the calls made to the caller's function or predicate and
\* the slots written.
Outcome(self, result, calls, writes) ==
    [s |-> self.s, result |-> result, pulled |-> self.pulled,
     calls |-> calls, writes |-> writes]


(***************************************************************************)
(* Stream: the operations that build a pipeline                            *)
(***************************************************************************)

\* Stream::chain with the two streamables in the order of pre_chain.
chainSwapped(s, other) == ChainingStream(other, s)

\* Stream::chain
chain(s, other) == ChainingStream(s, other)

\* Stream::pre_chain
pre_chain(s, other) == ChainingStream(other, s)

\* Stream::filter
filter(s, f) == FilteringStream(s, f)

\* Stream::map
map(s, mapper) == MappingStream(s, mapper)

\* Stream::flat_map
flat_map(s, mapper) == FlatMappingStream(s, mapper)

\* Stream::zip
zip(s, left_mapper, right_mapper) == ZippingStream(s, left_mapper, right_mapper)

\* Stream::flat_zip
flat_zip(s, left_mapper, right_mapper) ==
    FlatZippingStream(s, left_mapper, right_mapper)

\* Stream::peek
peek(s) == PeekingStream(s)

\* Stream::drop_while building a stage that filters out every element on
\* which the predicate holds.
drop_whileFilteringAll(s, predicate) == FilteringStream(s, Values \ predicate)

\* Stream::drop_while
drop_while(s, predicate) == DroppingStream(s, predicate)

\* Stream::take_while building a filtering stage.
take_whileFiltering(s, predicate) == FilteringStream(s, predicate)

\* Stream::take_while
take_while(s, predicate) == TakingStream(s, predicate)

\* Stream::sorted(comparator) draining the pipeline when it is called.
sorted_byEager(s, comparator) == SortingDrain(SortingStream(s, comparator))

\* Stream::sorted(C&& comparator)
sorted_by(s, comparator) == SortingStream(s, comparator)

\* Stream::limit passing max_count + 1.
limitOneMore(s, max_count) == LimitingStream(s, max_count + 1)

\* Stream::limit
limit(s, max_count) == LimitingStream(s, max_count)

\* Stream::distinct building a stage that lets every element pass.
distinctPassingAll(s) == FilteringStream(s, Values)

\* Stream::distinct
distinct(s) == DistinctStream(s)

\* Stream::sorted() with the comparator a > b.
sortedDescending(s) == sorted_by(s, "greater")

\* Stream::sorted(): the comparator is a < b.
sorted(s) == sorted_by(s, "less")

\* owning(container): a pipeline over an OwningIteratorStreamable.
owning(container) == OwningIteratorStreamable(container)

(***************************************************************************)
(* Stream: skip and the terminal operations                                *)
(***************************************************************************)

\* Stream::skip that goes on pulling after the pipeline reported absent.
RECURSIVE SkipLoopNoBreak(_, _, _)
SkipLoopNoBreak(self, i, count) ==
    IF i < count
    THEN SkipLoopNoBreak(next(self).self, i + 1, count)
    ELSE self

\* Stream::skip, the for loop.
RECURSIVE SkipLoop(_, _, _)
SkipLoop(self, i, count) ==
    IF i < count
    THEN LET n == next(self) IN
         IF n.element = Absent THEN n.self ELSE SkipLoop(n.self, i + 1, count)
    ELSE self

\* Stream::skip; it returns the pipeline itself.
skip(s, count) ==
    LET self == SkipLoop(Self(s), 0, count) IN
    Outcome(self, "self", << >>, << >>)

\* Stream::find_first
find_first(s) ==
    LET n == next(Self(s)) IN Outcome(n.self, n.element, << >>, << >>)

\* Stream::find_last overwriting element before it tests the new one.
RECURSIVE FindLastLoopOverwrite(_, _)
FindLastLoopOverwrite(self, element) ==
    IF element # Absent
    THEN LET n == next(self) IN FindLastLoopOverwrite(n.self, n.element)
    ELSE [self |-> self, element |-> element]

\* Stream::find_last, the while loop.
RECURSIVE FindLastLoop(_, _)
FindLastLoop(self, element) ==
    IF element # Absent
    THEN LET n == next(self) IN
         IF n.element = Absent
         THEN [self |-> n.self, element |-> element]
         ELSE FindLastLoop(n.self, n.element)
    ELSE [self |-> self, element |-> element]

\* Stream::find_last
find_last(s) ==
    LET n == next(Self(s))
        r == FindLastLoop(n.self, n.element)
    IN  Outcome(r.self, r.element, << >>, << >>)

\* Stream::reduce folding with the arguments of function exchanged.
RECURSIVE ReduceLoopSwapped(_, _, _, _, _)
ReduceLoopSwapped(self, function, acc, nxt, calls) ==
    IF nxt # Absent
    THEN LET n == next(self) IN
         ReduceLoopSwapped(n.self, function, Apply(function, nxt[1], acc),
                           n.element, Append(calls, << nxt[1], acc >>))
    ELSE [self |-> self, acc |-> acc, calls |-> calls]

\* Stream::reduce, the while loop.
RECURSIVE ReduceLoop(_, _, _, _, _)
ReduceLoop(self, function, acc, nxt, calls) ==
    IF nxt # Absent
    THEN LET n == next(self) IN
         ReduceLoop(n.self, function, Apply(function, acc, nxt[1]),
                    n.element, Append(calls, << acc, nxt[1] >>))
    ELSE [self |-> self, acc |-> acc, calls |-> calls]

\* Stream::reduce
reduce(s, function) ==
    LET e == next(Self(s)) IN
    IF e.element = Absent
    THEN Outcome(e.self, Absent, << >>, << >>)
    ELSE LET n == next(e.self)
             r == ReduceLoop(n.self, function, e.element[1], n.element, << >>)
         IN  Outcome(r.self, Present(r.acc), r.calls, << >>)

\* Stream::sum
sum(s) == reduce(s, "add")

\* Stream::min, the while loop assigning every element to the result.
RECURSIVE MinLoopKeepLast(_, _, _)
MinLoopKeepLast(self, result, element) ==
    IF element # Absent
    THEN LET value == element[1]
             n == next(self)
         IN  MinLoopKeepLast(n.self, value, n.element)
    ELSE [self |-> self, result |-> result]

\* Stream::min, the while loop.
RECURSIVE MinLoop(_, _, _)
MinLoop(self, result, element) ==
    IF element # Absent
    THEN LET value == element[1]
             n == next(self)
         IN  MinLoop(n.self, IF value < result THEN value ELSE result, n.element)
    ELSE [self |-> self, result |-> result]

\* Stream::min
min(s) ==
    LET e == next(Self(s)) IN
    IF e.element = Absent
    THEN Outcome(e.self, Absent, << >>, << >>)
    ELSE LET n == next(e.self)
             r == MinLoop(n.self, e.element[1], n.element)
         IN  Outcome(r.self, Present(r.result), << >>, << >>)

\* Stream::max, the while loop.
RECURSIVE MaxLoop(_, _, _)
MaxLoop(self, result, element) ==
    IF element # Absent
    THEN LET value == element[1]
             n == next(self)
         IN  MaxLoop(n.self, IF result < value THEN value ELSE result, n.element)
    ELSE [self |-> self, result |-> result]

\* Stream::max
max(s) ==
    LET e == next(Self(s)) IN
    IF e.element = Absent
    THEN Outcome(e.self, Absent, << >>, << >>)
    ELSE LET n == next(e.self)
             r == MaxLoop(n.self, e.element[1], n.element)
         IN  Outcome(r.self, Present(r.result), << >>, << >>)

\* Stream::count, the while loop.
RECURSIVE CountLoop(_, _, _)
CountLoop(self, element, result) ==
    IF element # Absent
    THEN LET n == next(self) IN CountLoop(n.self, n.element, result + 1)
    ELSE [self |-> self, result |-> result]

\* Stream::count counting the absent result that ends the loop as well.
countWithAbsent(s) ==
    LET e == next(Self(s))
        r == CountLoop(e.self, e.element, 0)
    IN  Outcome(r.self, r.result + 1, << >>, << >>)

\* Stream::count
count(s) ==
    LET e == next(Self(s))
        r == CountLoop(e.self, e.element, 0)
    IN  Outcome(r.self, r.result, << >>, << >>)

\* Stream::for_each, the while loop; calls are the arguments function got.
RECURSIVE ForEachLoop(_, _, _)
ForEachLoop(self, element, calls) ==
    IF element # Absent
    THEN LET n == next(self) IN
         ForEachLoop(n.self, n.element, Append(calls, element[1]))
    ELSE [self |-> self, calls |-> calls]

\* Stream::for_each
for_each(s) ==
    LET e == next(Self(s))
        r == ForEachLoop(e.self, e.element, << >>)
    IN  Outcome(r.self, "void", r.calls, << >>)

\* Stream::for_each_indexed, the while loop; calls are the arguments
\* function got: the element and the index, which counts up from 0.
RECURSIVE ForEachIndexedLoop(_, _, _, _)
ForEachIndexedLoop(self, element, index, calls) ==
    IF element # Absent
    THEN LET n == next(self) IN
         ForEachIndexedLoop(n.self, n.element, index + 1,
                            Append(calls, << element[1], index >>))
    ELSE [self |-> self, calls |-> calls]

\* Stream::for_each_indexed
for_each_indexed(s) ==
    LET e == next(Self(s))
        r == ForEachIndexedLoop(e.self, e.element, 0, << >>)
    IN  Outcome(r.self, "void", r.calls, << >>)

\* Stream::all_match, the while loop; calls are the elements the predicate
\* was given.
RECURSIVE AllMatchLoop(_, _, _, _)
AllMatchLoop(self, predicate, element, calls) ==
    IF element # Absent
    THEN IF ~Holds(predicate, element[1])
         THEN [self |-> self, result |-> FALSE, calls |-> Append(calls, element[1])]
         ELSE LET n == next(self) IN
              AllMatchLoop(n.self, predicate, n.element, Append(calls, element[1]))
    ELSE [self |-> self, result |-> TRUE, calls |-> calls]

\* Stream::all_match
all_match(s, predicate) ==
    LET e == next(Self(s))
        r == AllMatchLoop(e.self, predicate, e.element, << >>)
    IN  Outcome(r.self, r.result, r.calls, << >>)

\* Stream::any_match pulling the next element before it tests the current one.
RECURSIVE AnyMatchLoopPullFirst(_, _, _, _)
AnyMatchLoopPullFirst(self, predicate, element, calls) ==
    IF element # Absent
    THEN LET n == next(self) IN
         IF Holds(predicate, element[1])
         THEN [self |-> n.self, result |-> TRUE, calls |-> Append(calls, element[1])]
         ELSE AnyMatchLoopPullFirst(n.self, predicate, n.element,
                                    Append(calls, element[1]))
    ELSE [self |-> self, result |-> FALSE, calls |-> calls]

\* Stream::any_match, the while loop.
RECURSIVE AnyMatchLoop(_, _, _, _)
AnyMatchLoop(self, predicate, element, calls) ==
    IF element # Absent
    THEN IF Holds(predicate, element[1])
         THEN [self |-> self, result |-> TRUE, calls |-> Append(calls, element[1])]
         ELSE LET n == next(self) IN
              AnyMatchLoop(n.self, predicate, n.element, Append(calls, element[1]))
    ELSE [self |-> self, result |-> FALSE, calls |-> calls]

\* Stream::any_match
any_match(s, predicate) ==
    LET e == next(Self(s))
        r == AnyMatchLoop(e.self, predicate, e.element, << >>)
    IN  Outcome(r.self, r.result, r.calls, << >>)

\* Stream::none_match, the while loop.
RECURSIVE NoneMatchLoop(_, _, _, _)
NoneMatchLoop(self, predicate, element, calls) ==
    IF element # Absent
    THEN IF Holds(predicate, element[1])
         THEN [self |-> self, result |-> FALSE, calls |-> Append(calls, element[1])]
         ELSE LET n == next(self) IN
              NoneMatchLoop(n.self, predicate, n.element, Append(calls, element[1]))
    ELSE [self |-> self, result |-> TRUE, calls |-> calls]

\* Stream::none_match
none_match(s, predicate) ==
    LET e == next(Self(s))
        r == NoneMatchLoop(e.self, predicate, e.element, << >>)
    IN  Outcome(r.self, r.result, r.calls, << >>)

\* Stream::collect pushing to the front of the container.
RECURSIVE CollectLoopPushFront(_, _, _)
CollectLoopPushFront(self, element, result) ==
    IF element # Absent
    THEN LET n == next(self) IN
         CollectLoopPushFront(n.self, n.element, << element[1] >> \o result)
    ELSE [self |-> self, result |-> result]

\* Stream::collect, the while loop; push_back appends.
RECURSIVE CollectLoop(_, _, _)
CollectLoop(self, element, result) ==
    IF element # Absent
    THEN LET n == next(self) IN
         CollectLoop(n.self, n.element, Append(result, element[1]))
    ELSE [self |-> self, result |-> result]

\* Stream::collect
collect(s) ==
    LET e == next(Self(s))
        r == CollectLoop(e.self, e.element, << >>)
    IN  Outcome(r.self, r.result, << >>, << >>)

\* A default-constructed M<K, V>: the mapping with no entry.
EmptyMap == << >>

\* result[key] = value on an M<K, V>: the entry of key is created when
\* missing and assigned.
IndexAssign(result, key, value) ==
    [k \in (DOMAIN result) \cup { key } |-> IF k = key THEN value ELSE result[k]]

\* Stream::collect_map, the while loop leaving the entry of a key that is
\* already present as it is.
RECURSIVE CollectMapLoopKeepFirst(_, _, _, _, _, _)
CollectMapLoopKeepFirst(self, element, key_mapper, value_mapper, result, calls) ==
    IF element # Absent
    THEN LET value == element[1]
             key == KeyApply(key_mapper, value)
             n == next(self)
         IN  CollectMapLoopKeepFirst(n.self, n.element, key_mapper, value_mapper,
                 IF key \in DOMAIN result THEN result
                 ELSE IndexAssign(result, key, MapApply(value_mapper, value)),
                 Append(calls, value))
    ELSE [self |-> self, result |-> result, calls |-> calls]

\* Stream::collect_map, the while loop.
RECURSIVE CollectMapLoop(_, _, _, _, _, _)
CollectMapLoop(self, element, key_mapper, value_mapper, result, calls) ==
    IF element # Absent
    THEN LET value == element[1]
             n == next(self)
         IN  CollectMapLoop(n.self, n.element, key_mapper, value_mapper,
                 IndexAssign(result, KeyApply(key_mapper, value),
                             MapApply(value_mapper, value)),
                 Append(calls, value))
    ELSE [self |-> self, result |-> result, calls |-> calls]

\* Stream::collect_map
collect_map(s, key_mapper, value_mapper) ==
    LET e == next(Self(s))
        r == CollectMapLoop(e.self, e.element, key_mapper, value_mapper,
                            EmptyMap, << >>)
    IN  Outcome(r.self, r.result, r.calls, << >>)

\* Stream::collect_sequence that pulls no further once the last slot is
\* assigned.
RECURSIVE CollectSequenceLoopStopAtFull(_, _, _, _, _)
CollectSequenceLoopStopAtFull(self, element, index, EXTENT, writes) ==
    IF element # Absent /\ index < EXTENT
    THEN LET w == Append(writes, [index |-> index, value |-> element[1]]) IN
         IF index + 1 = EXTENT
         THEN [self |-> self, writes |-> w]
         ELSE LET n == next(self) IN
              CollectSequenceLoopStopAtFull(n.self, n.element, index + 1, EXTENT, w)
    ELSE [self |-> self, writes |-> writes]

\* Stream::collect_sequence, the while loop: slot index (from 0) of the
\* returned SEQ is assigned while an element is present and index < EXTENT.
RECURSIVE CollectSequenceLoop(_, _, _, _, _)
CollectSequenceLoop(self, element, index, EXTENT, writes) ==
    IF element # Absent /\ index < EXTENT
    THEN LET n == next(self) IN
         CollectSequenceLoop(n.self, n.element, index + 1, EXTENT,
                     Append(writes, [index |-> index, value |-> element[1]]))
    ELSE [self |-> self, writes |-> writes]

\* Stream::collect_sequence<EXTENT, SEQ>, EXTENT > 0; the slots of the
\* returned SEQ that were assigned are the writes.
collect_sequence(s, EXTENT) ==
    LET e == next(Self(s))
        r == CollectSequenceLoop(e.self, e.element, 0, EXTENT, << >>)
    IN  Outcome(r.self, "SEQ", << >>, r.writes)

\* Stream::collect_to_memory with the bound tested as index <= max_count.
RECURSIVE CollectToMemoryLoopOffByOne(_, _, _, _, _)
CollectToMemoryLoopOffByOne(self, element, index, max_count, writes) ==
    IF element # Absent /\ index <= max_count
    THEN LET n == next(self) IN
         CollectToMemoryLoopOffByOne(n.self, n.element, index + 1, max_count,
                     Append(writes, [index |-> index, value |-> element[1]]))
    ELSE [self |-> self, writes |-> writes]

\* Stream::collect_to_memory, the while loop: elements + index is assigned
\* while an element is present and index < max_count.
RECURSIVE CollectToMemoryLoop(_, _, _, _, _)
CollectToMemoryLoop(self, element, index, max_count, writes) ==
    IF element # Absent /\ index < max_count
    THEN LET n == next(self) IN
         CollectToMemoryLoop(n.self, n.element, index + 1, max_count,
                     Append(writes, [index |-> index, value |-> element[1]]))
    ELSE [self |-> self, writes |-> writes]

\* Stream::collect_to_memory(elements, max_count); the slots of elements
\* that were assigned are the writes.
collect_to_memory(s, max_count) ==
    LET e == next(Self(s))
        r == CollectToMemoryLoop(e.self, e.element, 0, max_count, << >>)
    IN  Outcome(r.self, "void", << >>, r.writes)

\* Stream::evaluate handing owning() a container it has already moved from.
evaluateMovedFrom(s) ==
    LET c == collect(s) IN
    [s |-> c.s, result |-> owning(<< >>), pulled |-> c.pulled,
     calls |-> << >>, writes |-> << >>]

\* Stream::evaluate: the pipeline returned is owning(collect<std::vector>()).
evaluate(s) ==
    LET c == collect(s) IN
    [s |-> c.s, result |-> owning(c.result), pulled |-> c.pulled,
     calls |-> << >>, writes |-> << >>]

(***************************************************************************)
(* The state: one pipeline and what the last operation on it did.          *)
(***************************************************************************)

VARIABLES
    stream,     \* the pipeline
    origin,     \* the pipeline as it was built
    history,    \* the results of the next() calls of the operations begun on
                \* it before it first reported absent, in call order
    pre,        \* the pipeline as it was when the last operation began
    op,         \* the last operation
    arg,        \* its argument
    result,     \* the value it returned
    pulled,     \* the results of the next() calls it made, in call order
    calls,      \* the arguments it gave the caller's function or predicate
    writes,     \* the slots it assigned
    exhausted,  \* a next() call on this pipeline has returned absent
    opsAfter    \* the operations begun after that: "none", "one" or "more"

vars == << stream, origin, history, pre, op, arg, result, pulled, calls, writes, exhausted, opsAfter >>

\* The sequences over Values of length at most n.
SeqsUpTo(n) == UNION { [1..k -> Values] : k \in 0..n }

\* The sources a pipeline is built from: counting(value, max_count), and a
\* range [begin, end) of a container, begin its first position and end any
\* position from there to the one past the last.
Sources ==
    { CountingStreamable(v, k) : v \in Values, k \in 0..MaxCount }
    \cup UNION { { RefSupplier(d, 1, e) : e \in 1..(Len(d) + 1) } : d \in SeqsUpTo(MaxLen) }

\* The streamables given to chain and pre_chain.
Others ==
    { CountingStreamable(1, 0), RefSupplier(<< 2, 1 >>, 1, 3) }

Init ==
    /\ stream \in Sources
    /\ origin = stream
    /\ history = << >>
    /\ pre = stream
    /\ op = "init"
    /\ arg = 0
    /\ result = 0
    /\ pulled = << >>
    /\ calls = << >>
    /\ writes = << >>
    /\ exhausted = FALSE
    /\ opsAfter = "none"

\* An operation on the pipeline ran to its return, leaving o.
Ran(name, a, o) ==
    /\ stream' = o.s
    /\ origin' = origin
    /\ history' = IF exhausted THEN history ELSE history \o o.pulled
    /\ pre' = stream
    /\ op' = name
    /\ arg' = a
    /\ result' = o.result
    /\ pulled' = o.pulled
    /\ calls' = o.calls
    /\ writes' = o.writes
    /\ exhausted' = (exhausted \/ \E i \in 1..Len(o.pulled) : o.pulled[i] = Absent)
    /\ opsAfter' = IF ~exhausted THEN "none"
                   ELSE IF opsAfter = "none" THEN "one" ELSE "more"

\* A combinator moved the pipeline into a new one, s.
Built(name, a, s) ==
    /\ stream' = s
    /\ origin' = s
    /\ history' = << >>
    /\ pre' = stream
    /\ op' = name
    /\ arg' = a
    /\ result' = "stream"
    /\ pulled' = << >>
    /\ calls' = << >>
    /\ writes' = << >>
    /\ exhausted' = FALSE
    /\ opsAfter' = "none"

Chain ==
    /\ ChainDepth(stream) < MaxChain
    /\ \E other \in Others : Built("chain", other, chain(stream, other))

PreChain ==
    /\ ChainDepth(stream) < MaxChain
    /\ \E other \in Others : Built("pre_chain", other, pre_chain(stream, other))

CallNext ==
    LET n == next(Self(stream)) IN
    Ran("next", 0, Outcome(n.self, n.element, << >>, << >>))

Skip == \E n \in 0..MaxArg : Ran("skip", n, skip(stream, n))

FindFirst == Ran("find_first", 0, find_first(stream))

FindLast == Ran("find_last", 0, find_last(stream))

Reduce == \E f \in Functions : Ran("reduce", f, reduce(stream, f))

Sum == Ran("sum", 0, sum(stream))

MinOp == Ran("min", 0, min(stream))

MaxOp == Ran("max", 0, max(stream))

Count == Ran("count", 0, count(stream))

ForEach == Ran("for_each", 0, for_each(stream))

ForEachIndexed == Ran("for_each_indexed", 0, for_each_indexed(stream))

AllMatch == \E p \in Predicates : Ran("all_match", p, all_match(stream, p))

AnyMatch == \E p \in Predicates : Ran("any_match", p, any_match(stream, p))

NoneMatch == \E p \in Predicates : Ran("none_match", p, none_match(stream, p))

Collect == Ran("collect", 0, collect(stream))

CollectSequence ==
    \E c \in 1..MaxArg : Ran("collect_sequence", c, collect_sequence(stream, c))

CollectToMemory ==
    \E c \in 0..MaxArg : Ran("collect_to_memory", c, collect_to_memory(stream, c))

Next ==
    \/ CallNext
    \/ Skip
    \/ FindFirst
    \/ FindLast
    \/ Reduce
    \/ Sum
    \/ MinOp
    \/ MaxOp
    \/ Count
    \/ ForEach
    \/ ForEachIndexed
    \/ AllMatch
    \/ AnyMatch
    \/ NoneMatch
    \/ Collect
    \/ CollectSequence
    \/ CollectToMemory

\* Pipelines of one source under skip and the terminal operations.
Spec == Init /\ [][Next]_vars

NextChain ==
    \/ Chain
    \/ PreChain
    \/ CallNext
    \/ Collect

\* Pipelines built with chain and pre_chain, pulled from one element at a
\* time and collected.
SpecChain == Init /\ [][NextChain]_vars

\* The pipeline is a source, with no stage on it.
IsSource(s) == s.kind \in { "counting", "ref" }

\* Containers the stages are also tried on.
Examples == { RefSupplier(<< 1, 2, 2, 3, 1 >>, 1, 6) }

InitStages ==
    /\ stream \in Sources \cup Examples
    /\ origin = stream
    /\ history = << >>
    /\ pre = stream
    /\ op = "init"
    /\ arg = 0
    /\ result = 0
    /\ pulled = << >>
    /\ calls = << >>
    /\ writes = << >>
    /\ exhausted = FALSE
    /\ opsAfter = "none"

ChainStage ==
    /\ IsSource(stream)
    /\ \E other \in Others : Built("chain", other, chain(stream, other))

PreChainStage ==
    /\ IsSource(stream)
    /\ \E other \in Others : Built("pre_chain", other, pre_chain(stream, other))

Filter ==
    /\ IsSource(stream)
    /\ \E p \in Predicates : Built("filter", p, filter(stream, p))

Map ==
    /\ IsSource(stream)
    /\ \E m \in Mappers : Built("map", m, map(stream, m))

FlatMap ==
    /\ IsSource(stream)
    /\ \E m \in FlatMappers : Built("flat_map", m, flat_map(stream, m))

Zip ==
    /\ IsSource(stream)
    /\ Built("zip", << "inc", "neg" >>, zip(stream, "inc", "neg"))

FlatZip ==
    /\ IsSource(stream)
    /\ Built("flat_zip", << "twice", "once" >>, flat_zip(stream, "twice", "once"))

Peek ==
    /\ IsSource(stream)
    /\ Built("peek", 0, peek(stream))

DropWhile ==
    /\ IsSource(stream)
    /\ \E p \in Predicates : Built("drop_while", p, drop_while(stream, p))

TakeWhile ==
    /\ IsSource(stream)
    /\ \E p \in Predicates : Built("take_while", p, take_while(stream, p))

SortedBy ==
    /\ IsSource(stream)
    /\ \E c \in Comparators : Built("sorted_by", c, sorted_by(stream, c))

Sorted ==
    /\ IsSource(stream)
    /\ Built("sorted", 0, sorted(stream))

Limit ==
    /\ IsSource(stream)
    /\ \E n \in 0..MaxArg : Built("limit", n, limit(stream, n))

Distinct ==
    /\ IsSource(stream)
    /\ Built("distinct", 0, distinct(stream))

NextStages ==
    \/ ChainStage
    \/ PreChainStage
    \/ Filter
    \/ Map
    \/ FlatMap
    \/ Zip
    \/ FlatZip
    \/ Peek
    \/ DropWhile
    \/ TakeWhile
    \/ SortedBy
    \/ Sorted
    \/ Limit
    \/ Distinct
    \/ CallNext
    \/ Collect

\* Pipelines of one stage on one source, pulled from one element at a time
\* and collected.
SpecStages == InitStages /\ [][NextStages]_vars

\* evaluate() ran on the pipeline: the state goes on with the pipeline it
\* returned, and result keeps the pipeline it was called on, as it left it.
Evaluate ==
    LET o == evaluate(stream) IN
    /\ stream' = o.result
    /\ origin' = o.result
    /\ history' = << >>
    /\ pre' = stream
    /\ op' = "evaluate"
    /\ arg' = 0
    /\ result' = o.s
    /\ pulled' = o.pulled
    /\ calls' = o.calls
    /\ writes' = o.writes
    /\ exhausted' = FALSE
    /\ opsAfter' = "none"

NextEvaluate ==
    \/ Evaluate
    \/ Count
    \/ Collect

\* Pipelines evaluated, counted and collected, any number of times.
SpecEvaluate == Init /\ [][NextEvaluate]_vars

CollectMap ==
    \E key_mapper \in KeyMappers, value_mapper \in Mappers :
        Ran("collect_map", << key_mapper, value_mapper >>,
            collect_map(stream, key_mapper, value_mapper))

NextCollectMap ==
    \/ CallNext
    \/ CollectMap

\* Pipelines over one source pulled from and collected into a mapping.
SpecCollectMap == Init /\ [][NextCollectMap]_vars

(***************************************************************************)
(* What the properties are stated against                                  *)
(***************************************************************************)

\* The elements a source has left, read off its fields: a counting source
\* its value _max_count - _count times, a range its positions from _current
\* up to _end, an owned container its positions from _current on.
Remaining(s) ==
    CASE s.kind = "counting" -> [i \in 1..(s._max_count - s._count) |-> s._value]
      [] s.kind = "ref" -> SubSeq(s.data, s._current, s._end - 1)
      [] s.kind = "owning" -> SubSeq(s.data, s._current, Len(s.data))

\* The elements later pulls produce: next() called until it reports absent.
Rest(s) == collect(s).result

\* The pipeline reports absent on the next pull.
Drained(s) == StreamableNext(s).element = Absent

\* The present results of the elements es, in order.
PresentAll(es) == [i \in 1..Len(es) |-> Present(es[i])]

Front(es) == SubSeq(es, 1, Len(es) - 1)

\* The left fold of the non-empty sequence es under the function f.
RECURSIVE FoldLeft(_, _)
FoldLeft(f, es) ==
    IF Len(es) = 1 THEN es[1] ELSE Apply(f, FoldLeft(f, Front(es)), es[Len(es)])

Terminal ==
    { "find_first", "find_last", "reduce", "sum", "min", "max", "count", "collect",
      "for_each", "for_each_indexed", "any_match", "all_match", "none_match" }

Matchers == { "all_match", "any_match", "none_match" }

(***************************************************************************)
(* Properties                                                              *)
(***************************************************************************)

\* C1: on a counting source built with value v and count k, the i-th call
\* of next() returns present(v) for i <= k and the (k+1)-th returns absent.
C1_CountingYieldsValueKTimes ==
    origin.kind = "counting" =>
        \A i \in 1..Len(history) :
            history[i] = IF i <= origin._max_count
                         THEN Present(origin._value) ELSE Absent

\* C1 witness: a counting source of count 2 was called three times, one
\* call at a time, and the third call returned absent.
C1_Witness ==
    /\ origin.kind = "counting" /\ origin._max_count = 2
    /\ op = "next" /\ pre._count = 2
    /\ history = << Present(origin._value), Present(origin._value), Absent >>

\* C2: once next() of a source has returned absent, every next() call of
\* every later operation returns absent and leaves the source as it was.
C2_ExhaustionIsPermanent ==
    (opsAfter # "none" /\ stream.kind \in { "counting", "ref" }) =>
        /\ \A i \in 1..Len(pulled) : pulled[i] = Absent
        /\ stream = pre

\* C2 witness: a range of three elements that had reported absent was
\* called again, for at least the second time, and reported absent.
C2_Witness ==
    /\ stream.kind = "ref" /\ stream._end = 4
    /\ opsAfter = "more" /\ op = "next" /\ pulled = << Absent >>

\* The empty result of a terminal operation.
IsEmptyResult ==
    CASE op \in { "find_first", "find_last", "reduce", "sum", "min", "max" } ->
            result = Absent
      [] op = "count" -> result = 0
      [] op = "collect" -> result = << >>
      [] op \in { "for_each", "for_each_indexed" } -> calls = << >>
      [] op = "any_match" -> result = FALSE
      [] op \in { "all_match", "none_match" } -> result = TRUE

\* C3: a terminal operation begun on a pipeline that has already reported
\* absent, however many operations ran on it since, yields its empty
\* result and calls the caller's function or predicate on nothing.
C3_TerminalOnExhaustedIsEmpty ==
    (opsAfter # "none" /\ op \in Terminal) => (IsEmptyResult /\ calls = << >>)

\* C3 witness: count() ran for at least the second time on a range of
\* three elements that had reported absent, and returned 0.
C3_Witness ==
    /\ opsAfter = "more" /\ op = "count" /\ result = 0
    /\ Len(history) = 4

\* C4: reduce(f) on the remaining elements e1..en returns absent and calls
\* f on nothing when n = 0, and otherwise the left fold seeded by e1, f
\* being called n-1 times, the i-th time on (fold of e1..ei, e(i+1)); the
\* pipeline is drained afterwards.
C4_ReduceIsLeftFold ==
    op = "reduce" =>
        LET es == Remaining(pre) IN
        /\ IF es = << >>
           THEN result = Absent /\ calls = << >>
           ELSE /\ result = Present(FoldLeft(arg, es))
                /\ calls = [i \in 1..(Len(es) - 1) |->
                               << FoldLeft(arg, SubSeq(es, 1, i)), es[i + 1] >>]
        /\ Drained(stream)
        /\ Rest(stream) = << >>

\* C4 witness: reduce with subtraction ran on the elements 1, 2, 3 and
\* returned (1 - 2) - 3.
C4_Witness ==
    /\ op = "reduce" /\ arg = "sub"
    /\ Remaining(pre) = << 1, 2, 3 >>
    /\ result = Present(0 - 4)
    /\ calls = << << 1, 2 >>, << 0 - 1, 3 >> >>

\* C5: a.chain(b) produces the elements of a and then those of b,
\* a.pre_chain(b) those of b and then those of a, which is what b.chain(a)
\* produces; and an operation pulls from the second part of a chain only
\* when the first part reports absent.
C5_ChainAppendsPreChainPrepends ==
    /\ op = "chain" => Rest(stream) = Rest(pre) \o Rest(arg)
    /\ op = "pre_chain" =>
          /\ Rest(stream) = Rest(arg) \o Rest(pre)
          /\ Rest(stream) = Rest(chain(arg, pre))
    /\ (op \in { "next", "collect" } /\ pre.kind = "chain"
           /\ stream.second # pre.second) =>
          (Drained(stream.first) /\ Len(pulled) > Len(Rest(pre.first)))

\* C5 witness: a range with two elements left was chained with the range
\* 2, 1 and the whole produces the four elements in that order.
C5_Witness ==
    /\ op = "chain" /\ pre.kind = "ref" /\ arg.kind = "ref"
    /\ Len(Rest(pre)) = 2 /\ Rest(pre)[1] = 3
    /\ Rest(stream) = Rest(pre) \o << 2, 1 >>

\* C6: skip(n) on L remaining elements pulls the first min(n, L) elements
\* and, when n > L, the one absent result that ends it, nothing more; it
\* returns the pipeline itself, which then produces the elements from
\* position min(n, L) on in their order; skip(0) pulls nothing.
C6_SkipDiscardsPrefix ==
    op = "skip" =>
        LET es == Remaining(pre)
            m  == Min2(arg, Len(es))
        IN  /\ pulled = PresentAll(SubSeq(es, 1, m))
                          \o (IF arg > Len(es) THEN << Absent >> ELSE << >>)
            /\ result = "self"
            /\ Rest(stream) = SubSeq(es, m + 1, Len(es))
            /\ arg = 0 => (pulled = << >> /\ stream = pre)

\* C6 witness: skip(2) ran on a range of three elements left and left the
\* third one.
C6_Witness ==
    /\ op = "skip" /\ arg = 2 /\ pre.kind = "ref"
    /\ Len(Remaining(pre)) = 3
    /\ Rest(stream) = << pre.data[3] >>
    /\ pre.data[3] # pre.data[1]

\* The positions of the remaining elements es that decide the matcher op:
\* the elements failing the predicate for all_match, those satisfying it
\* for any_match and none_match.
Decisive(es) ==
    { i \in 1..Len(es) : Holds(arg, es[i]) = (op # "all_match") }

\* C7: a matcher whose first decisive element stands at position i pulls
\* the elements up to and including it and nothing more, and the
\* elements after it are produced by later pulls in their order; with no
\* decisive element it drains the pipeline.
C7_MatchersShortCircuit ==
    op \in Matchers =>
        LET es == Remaining(pre)
            D  == Decisive(es)
        IN  IF D # {}
            THEN LET i == CHOOSE j \in D : \A k \in D : j <= k IN
                 /\ pulled = PresentAll(SubSeq(es, 1, i))
                 /\ calls = SubSeq(es, 1, i)
                 /\ Rest(stream) = SubSeq(es, i + 1, Len(es))
            ELSE /\ pulled = Append(PresentAll(es), Absent)
                 /\ calls = es
                 /\ Drained(stream)

\* C7 witness: any_match found its first match at the second of three
\* elements and the third is still to come.
C7_Witness ==
    /\ op = "any_match" /\ result = TRUE
    /\ Len(Remaining(pre)) = 3
    /\ Len(pulled) = 2
    /\ Len(Rest(stream)) = 1

\* C8: collect_sequence<c> and collect_to_memory(buf, c) on L remaining
\* elements assign exactly the slots 0..min(L, c)-1, slot i the i-th
\* remaining element, and no slot of index c or more.
C8_BoundedCollectorsKeepBound ==
    op \in { "collect_sequence", "collect_to_memory" } =>
        LET es == Remaining(pre) IN
        /\ writes = [i \in 1..Min2(Len(es), arg) |->
                        [index |-> i - 1, value |-> es[i]]]
        /\ \A i \in 1..Len(writes) : writes[i].index < arg

\* C8 witness: collect_to_memory with capacity 2 ran on three remaining
\* elements and assigned two slots.
C8_Witness ==
    /\ op = "collect_to_memory" /\ arg = 2
    /\ Len(Remaining(pre)) = 3
    /\ Len(writes) = 2

\* C9: collect() returns the remaining elements, each once and in the
\* order the pipeline produces them, and leaves the pipeline drained.
C9_CollectKeepsOrder ==
    op = "collect" =>
        /\ result = Remaining(pre)
        /\ Drained(stream)

\* C9 witness: collect() returned the three elements 3, 1, 2 of a range.
C9_Witness ==
    /\ op = "collect" /\ pre.kind = "ref"
    /\ result = << 3, 1, 2 >>

\* C10: find_last() pulls until the pipeline reports absent and returns
\* the last element it produced, or absent when there was none.
C10_FindLastReturnsLast ==
    op = "find_last" =>
        LET es == Remaining(pre) IN
        /\ result = IF es = << >> THEN Absent ELSE Present(es[Len(es)])
        /\ pulled = Append(PresentAll(es), Absent)
        /\ Drained(stream)

\* C10 witness: find_last() ran on the elements 1, 3, 2 and returned 2.
C10_Witness ==
    /\ op = "find_last"
    /\ Remaining(pre) = << 1, 3, 2 >>
    /\ result = Present(2)

\* The values of the present results among rs, in order.
RECURSIVE Yielded(_)
Yielded(rs) ==
    IF rs = << >> THEN << >>
    ELSE (IF rs[1] # Absent THEN << rs[1][1] >> ELSE << >>) \o Yielded(Tail(rs))

\* Everything the pipeline built last produces: the elements pulled from
\* it so far and the elements later pulls produce.
Produced == Yielded(history) \o Rest(stream)

\* The first position of es on which the predicate fails, or Len(es) + 1.
FirstFailing(predicate, es) ==
    LET F == { i \in 1..Len(es) : ~Holds(predicate, es[i]) } IN
    IF F = {} THEN Len(es) + 1 ELSE CHOOSE i \in F : \A j \in F : i <= j

\* The number of positions of es holding v.
Occurrences(es, v) == Cardinality({ i \in 1..Len(es) : es[i] = v })

Combinators ==
    { "chain", "pre_chain", "filter", "map", "flat_map", "zip", "flat_zip", "peek",
      "drop_while", "take_while", "sorted_by", "sorted", "limit", "distinct" }

\* C11: a combinator pulls nothing: the pipeline it is called on moves
\* into the new stage with its source's cursor or counter as it was (and
\* so does the other streamable of chain and pre_chain), and the source
\* inside a stage only changes once next() was called on the stage.
C11_CombinatorsAreLazy ==
    /\ op \in Combinators =>
          /\ pulled = << >>
          /\ CASE op = "chain" -> stream.first = pre /\ stream.second = arg
               [] op = "pre_chain" -> stream.first = arg /\ stream.second = pre
               [] OTHER -> stream.up = pre
    /\ (~IsSource(origin) /\ stream # origin) => history # << >>

\* C11 witness: sorted(comparator) was called on a range whose first
\* element was already pulled and that has two left, and the range sits
\* in the new stage with its cursor unmoved.
C11_Witness ==
    /\ op = "sorted_by" /\ pre.kind = "ref"
    /\ pre._current = 2 /\ pre._end = 4
    /\ stream.up = pre
    /\ stream.buffer = << >>

\* C12: evaluate() pulls every remaining element and the absent result,
\* leaves the pipeline it is called on drained, and returns an owning
\* pipeline that produces exactly those elements in the same order.
C12_EvaluateKeepsElements ==
    op = "evaluate" =>
        LET es == Remaining(pre) IN
        /\ stream.kind = "owning"
        /\ Rest(stream) = es
        /\ pulled = Append(PresentAll(es), Absent)
        /\ Drained(result)
        /\ Rest(result) = << >>

\* C12 witness: evaluate() ran on a range with 3, 1, 2 left and the
\* pipeline it returned produces 3, 1, 2.
C12_Witness ==
    /\ op = "evaluate" /\ pre.kind = "ref"
    /\ Remaining(pre) = << 3, 1, 2 >>
    /\ Rest(stream) = << 3, 1, 2 >>

\* What count() or collect() saw of the elements es.
Observed(es) ==
    CASE op = "count" -> result = Len(es)
      [] op = "collect" -> result = es

\* C13 as stated: the first and the second full terminal operation on the
\* pipeline evaluate() returned both observe all cached elements.
C13_BothPassesSeeAll ==
    (origin.kind = "owning" /\ op \in { "count", "collect" }
        /\ opsAfter \in { "none", "one" }) => Observed(origin.data)

\* C13 amended: the pipeline evaluate() returned is single-pass: the first
\* full terminal operation on it observes all cached elements, and every
\* terminal operation after that observes none.
C13_OnlyFirstPassSeesAll ==
    (origin.kind = "owning" /\ op \in { "count", "collect" }) =>
        IF opsAfter = "none" THEN Observed(origin.data) ELSE Observed(<< >>)

\* C13 witness: on the pipeline evaluate() returned over three cached
\* elements, the second full terminal operation was collect() and it
\* returned an empty container.
C13_Witness ==
    /\ origin.kind = "owning" /\ Len(origin.data) = 3
    /\ opsAfter = "one" /\ op = "collect" /\ result = << >>

\* C14: take_while(p) produces the upstream elements before the first one
\* on which p fails, and once it has reported absent every later next()
\* on it returns absent.
C14_TakeWhileLatches ==
    /\ op = "take_while" =>
          LET es == Remaining(pre) IN
          Rest(stream) = SubSeq(es, 1, FirstFailing(arg, es) - 1)
    /\ origin.kind = "take_while" =>
          LET es == Remaining(origin.up) IN
          /\ Produced = SubSeq(es, 1, FirstFailing(origin.predicate, es) - 1)
          /\ opsAfter # "none" => \A i \in 1..Len(pulled) : pulled[i] = Absent

\* C14 witness: take_while stopped at a failing element, was called again
\* at least twice and returned absent, while upstream still holds an
\* element on which the predicate holds.
C14_Witness ==
    /\ origin.kind = "take_while" /\ stream.done
    /\ opsAfter = "more" /\ op = "next" /\ result = Absent
    /\ Len(Yielded(history)) = 1
    /\ Remaining(stream.up) # << >>
    /\ Holds(origin.predicate, Remaining(stream.up)[1])

\* C15: limit(n) on L upstream elements produces the first min(n, L) of
\* them in order, never more than n, and once it has reported absent every
\* later next() on it returns absent; limit(0) produces nothing.
C15_LimitYieldsAtMostN ==
    /\ op = "limit" =>
          LET es == Remaining(pre) IN
          /\ Rest(stream) = SubSeq(es, 1, Min2(arg, Len(es)))
          /\ arg = 0 => Rest(stream) = << >>
    /\ origin.kind = "limit" =>
          LET es == Remaining(origin.up) IN
          /\ Produced = SubSeq(es, 1, Min2(origin.max_count, Len(es)))
          /\ Len(Yielded(history)) <= origin.max_count
          /\ opsAfter # "none" => \A i \in 1..Len(pulled) : pulled[i] = Absent

\* C15 witness: limit(2) on three upstream elements produced two, was
\* called again at least twice and returned absent, the third element
\* still being upstream.
C15_Witness ==
    /\ origin.kind = "limit" /\ origin.max_count = 2
    /\ Len(Remaining(origin.up)) = 3
    /\ Len(Yielded(history)) = 2
    /\ opsAfter = "more" /\ op = "next" /\ result = Absent
    /\ Len(Remaining(stream.up)) = 1

\* C16: drop_while(p) produces the upstream elements from the first one on
\* which p fails, all of them and in order, those on which p holds
\* included.
C16_DropWhileDropsPrefixOnly ==
    /\ op = "drop_while" =>
          LET es == Remaining(pre) IN
          Rest(stream) = SubSeq(es, FirstFailing(arg, es), Len(es))
    /\ origin.kind = "drop_while" =>
          LET es == Remaining(origin.up) IN
          Produced = SubSeq(es, FirstFailing(origin.predicate, es), Len(es))

\* C16 witness: drop_while with a predicate holding of 1 only ran on
\* 1, 3, 1 and collect() returned 3, 1.
C16_Witness ==
    /\ origin.kind = "drop_while" /\ origin.predicate = { 1 }
    /\ Remaining(origin.up) = << 1, 3, 1 >>
    /\ op = "collect" /\ result = << 3, 1 >>

\* C17: distinct() produces the upstream elements that equal no earlier
\* upstream element, in upstream order: every upstream value once.
C17_DistinctKeepsFirstOccurrences ==
    (op = "distinct" \/ origin.kind = "distinct") =>
          LET es == Remaining(IF op = "distinct" THEN pre ELSE origin.up)
              out == IF op = "distinct" THEN Rest(stream) ELSE Produced
              firsts == { i \in 1..Len(es) : \A j \in 1..(i - 1) : es[j] # es[i] }
          IN  /\ Len(out) = Cardinality(firsts)
              /\ \A v \in Values :
                    Occurrences(out, v) = IF Occurrences(es, v) > 0 THEN 1 ELSE 0
              /\ \A a, b \in 1..Len(out) :
                    a < b => \E i, j \in firsts :
                                i < j /\ es[i] = out[a] /\ es[j] = out[b]

\* C17 witness: distinct() ran on 1, 2, 2, 3, 1 and collect() returned
\* 1, 2, 3.
C17_Witness ==
    /\ origin.kind = "distinct"
    /\ Remaining(origin.up) = << 1, 2, 2, 3, 1 >>
    /\ op = "collect" /\ result = << 1, 2, 3 >>

\* C18: sorted drains upstream on the first pull and never pulls from it
\* again: once pulled from, it has made exactly L + 1 next() calls on
\* upstream; what it produces is a permutation of the upstream elements in
\* which no element comes before one the comparator puts before it, and
\* sorted() without a comparator produces them in non-decreasing order.
C18_SortedDrainsOnceAndOrders ==
    /\ op = "sorted" =>
          \A i, j \in 1..Len(Rest(stream)) : i < j => Rest(stream)[i] <= Rest(stream)[j]
    /\ origin.kind = "sorted" =>
          LET es == Remaining(origin.up)
              out == Produced
          IN  /\ history = << >> => (stream.pulls = 0 /\ stream.up = origin.up)
              /\ history # << >> =>
                    (stream.pulls = Len(es) + 1 /\ Drained(stream.up))
              /\ Len(out) = Len(es)
              /\ \A v \in Values : Occurrences(out, v) = Occurrences(es, v)
              /\ \A i, j \in 1..Len(out) :
                    i < j => ~Compare(origin.comparator, out[j], out[i])

\* C18 witness: sorted with a < b ran on 3, 1, 2, was collected and then
\* pulled from again: it produced 1, 2, 3 and made four calls on upstream.
C18_Witness ==
    /\ origin.kind = "sorted" /\ origin.comparator = "less"
    /\ Remaining(origin.up) = << 3, 1, 2 >>
    /\ Yielded(history) = << 1, 2, 3 >>
    /\ opsAfter = "more" /\ op = "next"
    /\ stream.pulls = 4

\* The number of present results among rs.
RECURSIVE CountPresent(_)
CountPresent(rs) ==
    IF rs = << >> THEN 0
    ELSE (IF rs[1] # Absent THEN 1 ELSE 0) + CountPresent(Tail(rs))

\* C19: a counting source keeps 0 <= _count <= _max_count; over an
\* operation _count grows by one for every next() that returned a value
\* and by nothing for one that returned absent, so it never decreases;
\* _value and _max_count stay as built.
C19_CountIsMonotoneAndBounded ==
    stream.kind = "counting" =>
        /\ 0 <= stream._count /\ stream._count <= stream._max_count
        /\ stream._count = pre._count + CountPresent(pulled)
        /\ stream._count >= pre._count
        /\ stream._value = origin._value
        /\ stream._max_count = origin._max_count

\* C19 witness: one next() call on a counting source returned the value
\* and took _count from 1 to 2, and a later one returned absent at 2.
C19_Witness ==
    /\ stream.kind = "counting" /\ op = "next"
    /\ result = Absent /\ stream._count = 2 /\ pre._count = 2
    /\ history = << Present(stream._value), Present(stream._value), Absent >>

\* C20: collect_sequence<c> and collect_to_memory(buf, c) on L remaining
\* elements pull min(L, c + 1) elements, and the absent result when
\* L <= c; with L > c the element at position c is pulled and assigned
\* to no slot, and the elements from position c + 1 on are produced by
\* later pulls; with c = 0 and L > 0 one element is pulled.
C20_BoundedCollectorsPullOneMore ==
    op \in { "collect_sequence", "collect_to_memory" } =>
        LET es == Remaining(pre)
            k  == Min2(Len(es), arg + 1)
        IN  /\ pulled = PresentAll(SubSeq(es, 1, k))
                          \o (IF Len(es) <= arg THEN << Absent >> ELSE << >>)
            /\ Rest(stream) = SubSeq(es, k + 1, Len(es))
            /\ Len(es) > arg =>
                  /\ Len(writes) = arg
                  /\ pulled[arg + 1] = Present(es[arg + 1])
                  /\ Len(Rest(stream)) = Len(es) - (arg + 1)

\* C20 witness: collect_to_memory with capacity 0 ran on three remaining
\* elements, pulled the first, assigned nothing and left the other two.
C20_Witness ==
    /\ op = "collect_to_memory" /\ arg = 0
    /\ Len(Remaining(pre)) = 3
    /\ Len(pulled) = 1 /\ writes = << >>
    /\ Len(Rest(stream)) = 2

\* C21: sum(), min() and max() return what reduce returns with addition,
\* with "the smaller of the two, the earlier on ties" and with "the larger
\* of the two, the earlier on ties", pull what reduce pulls and leave the
\* pipeline as reduce leaves it; min() and max() return an element none of
\* the remaining ones is less or greater than, all three return absent on
\* an empty pipeline and all three drain the pipeline.
C21_SumMinMaxAgreeWithReduce ==
    op \in { "sum", "min", "max" } =>
        LET es == Remaining(pre)
            f  == CASE op = "sum" -> "add"
                    [] op = "min" -> "smaller"
                    [] op = "max" -> "larger"
            r  == reduce(pre, f)
        IN  /\ result = r.result
            /\ stream = r.s
            /\ pulled = r.pulled
            /\ pulled = Append(PresentAll(es), Absent)
            /\ Drained(stream)
            /\ es = << >> <=> result = Absent
            /\ es # << >> =>
                  /\ result = Present(FoldLeft(f, es))
                  /\ op # "sum" => \E i \in 1..Len(es) : result = Present(es[i])
                  /\ op = "min" => \A i \in 1..Len(es) : result[1] <= es[i]
                  /\ op = "max" => \A i \in 1..Len(es) : result[1] >= es[i]

\* C21 witness: min() ran on the elements 2, 1, 1, the least of them
\* occurring twice, returned 1 and drained the range.
C21_Witness ==
    /\ op = "min"
    /\ Remaining(pre) = << 2, 1, 1 >>
    /\ result = Present(1)
    /\ Len(pulled) = 4
    /\ Drained(stream)

\* C22: collect_map(key_mapper, value_mapper) returns a mapping whose
\* keys are exactly the keys of the remaining elements, each once, and
\* whose value at a key is the value of the last remaining element with
\* that key; both mappers are applied to every remaining element in
\* source order and the pipeline is drained.
C22_CollectMapLastValueWins ==
    op = "collect_map" =>
        LET es == Remaining(pre)
            KeyAt(i) == KeyApply(arg[1], es[i])
            LastWith(k) ==
                CHOOSE i \in 1..Len(es) :
                    KeyAt(i) = k /\ \A j \in (i + 1)..Len(es) : KeyAt(j) # k
        IN  /\ DOMAIN result = { KeyAt(i) : i \in 1..Len(es) }
            /\ \A k \in DOMAIN result :
                  result[k] = MapApply(arg[2], es[LastWith(k)])
            /\ calls = es
            /\ pulled = Append(PresentAll(es), Absent)
            /\ Drained(stream)

\* C22 witness: collect_map with the key "half the element" and the value
\* "the element plus one" ran on 2, 3, 1: 2 and 3 share the key 1, and
\* the mapping holds 4, the value of 3, at key 1 and 2 at key 0.
C22_Witness ==
    /\ op = "collect_map" /\ arg = << "half", "inc" >>
    /\ Remaining(pre) = << 2, 3, 1 >>
    /\ DOMAIN result = { 0, 1 }
    /\ result[1] = 4 /\ result[0] = 2

\* C23: a range source [begin, end) returns, call after call, the
\* elements at begin, begin + 1, ... up to end - 1 and then absent; its
\* cursor moves by one for every element returned and by nothing for
\* absent, never beyond end; no position at or after end is read, the
\* container and end stay as built, and with begin = end the first call
\* returns absent and changes nothing.
C23_RangeYieldsEachOnceInOrder ==
    stream.kind = "ref" =>
        /\ stream.data = origin.data /\ stream._end = origin._end
        /\ pre._current <= stream._current /\ stream._current <= stream._end
        /\ stream._current = pre._current + CountPresent(pulled)
        /\ \A i \in 1..Len(pulled) :
              LET at == pre._current + i - 1 IN
              pulled[i] = IF at < pre._end THEN Present(pre.data[at]) ELSE Absent
        /\ Yielded(history) = SubSeq(origin.data, origin._current, stream._current - 1)
        /\ (op = "next" /\ pre._current = pre._end) =>
              (result = Absent /\ stream = pre)
        /\ (origin._current = origin._end /\ history # << >>) => history[1] = Absent

\* C23 witness: the range of the first two positions of the container
\* 3, 1, 2 returned 3, then 1, then absent, its cursor resting at end with
\* the third position never returned.
C23_Witness ==
    /\ origin.kind = "ref" /\ origin.data = << 3, 1, 2 >>
    /\ origin._current = 1 /\ origin._end = 3
    /\ op = "next" /\ result = Absent
    /\ history = << Present(3), Present(1), Absent >>
    /\ stream._current = 3

=============================================================================
